---- MODULE Spec2Model ----
(***************************************************************************)
(* Model of src/app.py, the Streamlit crime-forecast dashboard.            *)
(*                                                                         *)
(* The script is executed top to bottom on every user interaction.  The    *)
(* state that survives a run is the CSV file, the widget values and the    *)
(* st.cache_resource cache of forecast_state; everything else is computed  *)
(* afresh by the run and recorded in `page`.                               *)
(*                                                                         *)
(* Numbers are integers; a quotient the script computes in floating point  *)
(* (a percentage) is kept as an exact fraction [num, den], so rounding of  *)
(* the float is outside the model.  Prophet is an external library: its    *)
(* dates are computed as the library computes them, its predicted values   *)
(* are an arbitrary choice from YhatValues.                                *)
(***************************************************************************)
EXTENDS Integers, Sequences, FiniteSets, TLC

VARIABLES csv, selected_state, forecast_years, selected_crime, cache, fits, page

vars == <<csv, selected_state, forecast_years, selected_crime, cache, fits, page>>

(***************************************************************************)
(* Bounds of the model.                                                    *)
(***************************************************************************)
\* rows of the CSV file
MaxRows == 4
\* the count of model fits per cache key saturates here
FitCap == 2
\* in a session the slider visits its default and 1..HorizonCap
HorizonCap == 1

(***************************************************************************)
(* Constants of the program.                                               *)
(***************************************************************************)
\* st.sidebar.slider("Forecast years into the future", 1, 10, 5)
slider_min == 1
slider_max == 10
slider_default == 5
\* if len(state_df) < 3: return None, None, None
min_points == 3

\* what an empty selectbox returns, and the value of a widget never rendered
None == "None"

(***************************************************************************)
(* The input file.  A row of the CSV holds the area name, the year, the    *)
(* group name and the text of the count field (a sequence of characters,   *)
(* empty when the field is missing).  The rows a file may hold:            *)
(***************************************************************************)
RowUniverse ==
  << [Area_Name |-> "Bihar", Year |-> 2004, Group_Name |-> "Murder",
      Trial_of_Violent_Crimes_by_Courts_Total |-> << >>],
     [Area_Name |-> "Assam", Year |-> 2003, Group_Name |-> "Murder",
      Trial_of_Violent_Crimes_by_Courts_Total |-> <<"4", "0">>],
     [Area_Name |-> "Assam", Year |-> 2003, Group_Name |-> "Dacoity",
      Trial_of_Violent_Crimes_by_Courts_Total |-> <<"2", "0">>],
     [Area_Name |-> "Assam", Year |-> 2003, Group_Name |-> "Dacoity",
      Trial_of_Violent_Crimes_by_Courts_Total |-> <<"-", "2", "0">>],
     [Area_Name |-> "Assam", Year |-> 2002, Group_Name |-> "Murder",
      Trial_of_Violent_Crimes_by_Courts_Total |-> <<"2", "0">>],
     [Area_Name |-> "Assam", Year |-> 2002, Group_Name |-> "Dacoity",
      Trial_of_Violent_Crimes_by_Courts_Total |-> <<"0">>],
     [Area_Name |-> "Assam", Year |-> 2001, Group_Name |-> "Murder",
      Trial_of_Violent_Crimes_by_Courts_Total |-> <<"a", "b", "c">>],
     [Area_Name |-> "Assam", Year |-> 2001, Group_Name |-> "Dacoity",
      Trial_of_Violent_Crimes_by_Courts_Total |-> <<"2", "0">>],
     [Area_Name |-> "Bihar", Year |-> 2001, Group_Name |-> "Dacoity",
      Trial_of_Violent_Crimes_by_Courts_Total |-> <<"2", "0">>] >>

\* A file is a list of at most MaxRows rows.  Nothing the script computes
\* depends on the order of the rows except the order of equal counts in a
\* sort, so one order per multiset of rows is explored: that of RowUniverse,
\* which is sorted by none of the script's keys.
IndexLists(n) ==
  {s \in [1..n -> 1..Len(RowUniverse)] : \A i \in 1..(n - 1) : s[i] <= s[i + 1]}

Tables ==
  UNION {{[i \in 1..n |-> RowUniverse[s[i]]] : s \in IndexLists(n)} : n \in 0..MaxRows}

\* Python's order of the strings of the model
NameOrder == <<"Assam", "Bihar", "Dacoity", "Murder", "None">>

StrRank(s) == CHOOSE i \in 1..Len(NameOrder) : NameOrder[i] = s

(***************************************************************************)
(* pandas helpers                                                          *)
(***************************************************************************)
NaN == [nan |-> TRUE, v |-> 0]

Digits == <<"0", "1", "2", "3", "4", "5", "6", "7", "8", "9">>

IsDigit(c) == \E d \in 1..10 : Digits[d] = c

DigitVal(c) == (CHOOSE d \in 1..10 : Digits[d] = c) - 1

RECURSIVE ParseDigits(_)
ParseDigits(s) ==
  IF s = << >> THEN 0
  ELSE ParseDigits(SubSeq(s, 1, Len(s) - 1)) * 10 + DigitVal(s[Len(s)])

\* pd.to_numeric(x, errors="coerce") of one field: an optionally signed run
\* of digits is its value; anything else, the missing field too, is NaN
to_numeric(raw) ==
  LET neg == raw # << >> /\ raw[1] = "-"
      body == IF neg THEN Tail(raw) ELSE raw
  IN  IF body # << >> /\ \A i \in 1..Len(body) : IsDigit(body[i])
      THEN [nan |-> FALSE, v |-> IF neg THEN 0 - ParseDigits(body) ELSE ParseDigits(body)]
      ELSE NaN

\* fillna with a sentinel of -1 in place of the value asked for
fillna_sentinel(x, d) == IF x.nan THEN 0 - 1 ELSE x.v

\* Series.fillna(d) of one value
fillna(x, d) == IF x.nan THEN d ELSE x.v

\* lexicographic order of two-part sort keys
KeyLess(a, b) == a[1] < b[1] \/ (a[1] = b[1] /\ a[2] < b[2])

\* the indices I in ascending order of keys, equal keys in their order
RECURSIVE OrderIdx(_, _)
OrderIdx(keys, I) ==
  IF I = {} THEN << >>
  ELSE LET m == CHOOSE i \in I : \A j \in I \ {i} :
                   KeyLess(keys[i], keys[j]) \/ (keys[i] = keys[j] /\ i < j)
       IN  <<m>> \o OrderIdx(keys, I \ {m})

\* DataFrame.sort_values: the rows in ascending order of their keys
sort_values(seq, keys) ==
  LET o == OrderIdx(keys, 1..Len(seq))
  IN  [k \in 1..Len(seq) |-> seq[o[k]]]

\* the distinct values of a column, in order of first appearance
unique(seq) ==
  LET first == {i \in 1..Len(seq) : \A j \in 1..(i - 1) : seq[j] # seq[i]}
      o == OrderIdx([i \in 1..Len(seq) |-> <<i, 0>>], first)
  IN  [k \in 1..Len(o) |-> seq[o[k]]]

\* the first of the rows I instead of their sum
FirstOfRows(df, I) ==
  IF I = {} THEN 0 ELSE df[CHOOSE x \in I : \A y \in I : x <= y].Total_Crimes

\* sum of Total_Crimes over the rows I of a frame
RECURSIVE SumRows(_, _)
SumRows(df, I) ==
  IF I = {} THEN 0
  ELSE LET i == CHOOSE x \in I : TRUE
       IN  df[i].Total_Crimes + SumRows(df, I \ {i})

\* sum of a list of integers
RECURSIVE SumSeq(_)
SumSeq(s) == IF s = << >> THEN 0 ELSE Head(s) + SumSeq(Tail(s))

(***************************************************************************)
(* DATA READ and DATA CLEANING                                             *)
(***************************************************************************)
\* read_csv, the renaming of the columns, and Total_Crimes made numeric
CleanData(file) ==
  [i \in 1..Len(file) |->
     [State |-> file[i].Area_Name,
      Year |-> file[i].Year,
      Crime_Group |-> file[i].Group_Name,
      Total_Crimes |-> fillna(to_numeric(file[i].Trial_of_Violent_Crimes_by_Courts_Total), 0)]]

\* df.groupby(["State", "Year"])["Total_Crimes"].sum().reset_index(): one
\* row per key, the keys in ascending order
groupby_state_year(df) ==
  LET ks == unique([i \in 1..Len(df) |-> <<df[i].State, df[i].Year>>])
      gs == sort_values(ks, [i \in 1..Len(ks) |-> <<StrRank(ks[i][1]), ks[i][2]>>])
  IN  [g \in 1..Len(gs) |->
         [State |-> gs[g][1],
          Year |-> gs[g][2],
          Total_Crimes |->
            SumRows(df, {i \in 1..Len(df) : df[i].State = gs[g][1] /\ df[i].Year = gs[g][2]})]]

\* state_year: the groups sorted by State, then Year
aggregate_state_year(df) ==
  LET g == groupby_state_year(df)
  IN  sort_values(g, [i \in 1..Len(g) |-> <<StrRank(g[i].State), g[i].Year>>])

\* sorted(column.unique())
sorted_unique(col) ==
  LET u == unique(col)
  IN  sort_values(u, [i \in 1..Len(u) |-> <<StrRank(u[i]), 0>>])

state_list_of(sy) == sorted_unique([i \in 1..Len(sy) |-> sy[i].State])

crime_groups_of(df) == sorted_unique([i \in 1..Len(df) |-> df[i].Crime_Group])

(***************************************************************************)
(* Dates.  A timestamp is the number yyyymmdd, whose order is the order of *)
(* the dates.                                                              *)
(***************************************************************************)
\* pd.to_datetime(year, format="%Y"): the first of January of the year
to_datetime(year) == year * 10000 + 101

\* Series.dt.year
dt_year(ds) == ds \div 10000

\* the year end (freq='Y') on or after a date: the 31st of December of its year
year_end(ds) == dt_year(ds) * 10000 + 1231

\* pd.date_range(start=start, periods=n, freq='Y'): n consecutive year ends,
\* the first one the year end on or after start
date_range_Y(start, n) == [k \in 1..n |-> year_end(start) + (k - 1) * 10000]

\* the largest element of a non-empty list of integers
MaxOf(s) == CHOOSE x \in {s[i] : i \in 1..Len(s)} : \A i \in 1..Len(s) : s[i] <= x

(***************************************************************************)
(* Prophet (external).  The model keeps the dates it was fitted on;        *)
(* make_future_dataframe appends the next `periods` dates of the given     *)
(* frequency that lie after the last of them.                              *)
(***************************************************************************)
\* Prophet.fit: history_dates, the distinct ds in ascending order
history_dates(train) ==
  LET u == unique([i \in 1..Len(train) |-> train[i].ds])
  IN  sort_values(u, [i \in 1..Len(u) |-> <<u[i], 0>>])

\* model.make_future_dataframe(periods=periods, freq='Y')
make_future_dataframe(train, periods) ==
  LET hist == history_dates(train)
      last_date == MaxOf(hist)
      dates == date_range_Y(last_date, periods + 1)
      later == SelectSeq(dates, LAMBDA d : d > last_date)
  IN  hist \o SubSeq(later, 1, IF Len(later) < periods THEN Len(later) ELSE periods)

\* model.predict(future): one row per date of future; yhat is the model's
\* prediction, the value the fit produced
predict(future, yhat) == [i \in 1..Len(future) |-> [ds |-> future[i], yhat |-> yhat]]

\* the values a fitted model may predict
YhatValues == {19, 21, 22}

(***************************************************************************)
(* FUNCTION: FORECAST                                                      *)
(***************************************************************************)
NoResult == [none |-> TRUE, state_df |-> << >>, forecast |-> << >>]

\* data[data["State"] == state_name][["Year", "Total_Crimes"]] as ds, y
select_state_df(data, state_name) ==
  LET rows == SelectSeq(data, LAMBDA r : r.State = state_name)
  IN  [i \in 1..Len(rows) |-> [ds |-> to_datetime(rows[i].Year), y |-> rows[i].Total_Crimes]]

\* forecast_state refusing a series of exactly three points
forecast_state_off_by_one(data, state_name, years, yhat) ==
  LET state_df == select_state_df(data, state_name)
  IN  IF Len(state_df) <= min_points
      THEN NoResult
      ELSE [none |-> FALSE,
            state_df |-> state_df,
            forecast |-> predict(make_future_dataframe(state_df, years), yhat)]

\* the body of forecast_state; (None, None, None) is NoResult
forecast_state(data, state_name, years, yhat) ==
  LET state_df == select_state_df(data, state_name)
  IN  IF Len(state_df) < min_points
      THEN NoResult
      ELSE [none |-> FALSE,
            state_df |-> state_df,
            forecast |-> predict(make_future_dataframe(state_df, years), yhat)]

\* a function that is not cached: no entry is ever found
cache_entries_uncached(store, data, state_name, years) == {}

\* @st.cache_resource: the entries stored for these arguments
cache_entries(store, data, state_name, years) ==
  {e \in store : e.data = data /\ e.state_name = state_name /\ e.years = years}

(***************************************************************************)
(* YEAR-OVER-YEAR COMPARISON                                               *)
(***************************************************************************)
\* (Series.pct_change() * 100)[i].  pct_change divides in floating point:
\* x/0 is inf or -inf by the sign of x, 0/0 is NaN, and the first row has
\* no predecessor and is NaN.
pct_change_100(y, i) ==
  IF i = 1 THEN [kind |-> "nan", num |-> 0, den |-> 1]
  ELSE IF y[i - 1] = 0
       THEN IF y[i] > 0 THEN [kind |-> "inf", num |-> 0, den |-> 1]
            ELSE IF y[i] < 0 THEN [kind |-> "-inf", num |-> 0, den |-> 1]
            ELSE [kind |-> "nan", num |-> 0, den |-> 1]
       ELSE [kind |-> "num", num |-> (y[i] - y[i - 1]) * 100, den |-> y[i - 1]]

\* state_df_copy with its Year and YoY_Change columns
yoy_frame(state_df) ==
  [i \in 1..Len(state_df) |->
     [Year |-> dt_year(state_df[i].ds),
      y |-> state_df[i].y,
      YoY_Change |-> pct_change_100([j \in 1..Len(state_df) |-> state_df[j].y], i)]]

\* DataFrame.dropna(): the rows none of whose values is NaN
dropna(frame) == SelectSeq(frame, LAMBDA r : r.YoY_Change.kind # "nan")

(***************************************************************************)
(* CRIME TYPE DISTRIBUTION                                                 *)
(***************************************************************************)
\* df["Year"].max()
latest_year_of(df) == MaxOf([i \in 1..Len(df) |-> df[i].Year])

\* df[(df["State"] == selected_state) & (df["Year"] == latest_year)]
crime_type_data_of(df, state_name) ==
  SelectSeq(df, LAMBDA r : r.State = state_name /\ r.Year = latest_year_of(df))

\* groupby("Crime_Group")["Total_Crimes"].sum().reset_index()
groupby_crime_group(data) ==
  LET gs == sorted_unique([i \in 1..Len(data) |-> data[i].Crime_Group])
  IN  [g \in 1..Len(gs) |->
         [Crime_Group |-> gs[g],
          Total_Crimes |-> SumRows(data, {i \in 1..Len(data) : data[i].Crime_Group = gs[g]})]]

\* the groups with a positive sum, left in the order of groupby
positive_unsorted(totals) == SelectSeq(totals, LAMBDA r : r.Total_Crimes > 0)

\* the groups with a positive sum, the largest first
positive_sorted(totals) ==
  LET pos == SelectSeq(totals, LAMBDA r : r.Total_Crimes > 0)
  IN  sort_values(pos, [i \in 1..Len(pos) |-> <<0 - pos[i].Total_Crimes, 0>>])

\* the Percentage column: Total_Crimes / Total_Crimes.sum() * 100
with_percentage(totals) ==
  LET total == SumSeq([i \in 1..Len(totals) |-> totals[i].Total_Crimes])
  IN  [i \in 1..Len(totals) |->
         [Crime_Group |-> totals[i].Crime_Group,
          Total_Crimes |-> totals[i].Total_Crimes,
          Percentage |-> [num |-> totals[i].Total_Crimes * 100, den |-> total]]]

\* crime_type_totals as displayed; empty when crime_type_data is empty
crime_type_totals_of(df, state_name) ==
  with_percentage(positive_sorted(groupby_crime_group(crime_type_data_of(df, state_name))))

(***************************************************************************)
(* FORECAST SUMMARY                                                        *)
(***************************************************************************)
\* state_df["ds"].max()
last_historical_year_of(state_df) == MaxOf([i \in 1..Len(state_df) |-> state_df[i].ds])

\* the window taken from the last historical timestamp on
forecast_future_from_last(state_df, forecast) ==
  SelectSeq(forecast, LAMBDA r : r.ds >= last_historical_year_of(state_df))

\* forecast[forecast["ds"] > last_historical_year]
forecast_future_of(state_df, forecast) ==
  SelectSeq(forecast, LAMBDA r : r.ds > last_historical_year_of(state_df))

\* forecast_future_display: ds replaced by its year
forecast_future_display_of(forecast_future) ==
  [i \in 1..Len(forecast_future) |->
     [Year |-> dt_year(forecast_future[i].ds),
      Predicted_Crimes |-> forecast_future[i].yhat]]

(***************************************************************************)
(* INSIGHTS                                                                *)
(***************************************************************************)
\* change = ((pred_first_future - latest) / latest * 100) if latest > 0 else 0
change_of(latest, pred_first_future) ==
  IF latest > 0
  THEN [num |-> (pred_first_future - latest) * 100, den |-> latest]
  ELSE [num |-> 0, den |-> 1]

\* the bands with their limits of 5 and -5 counted in
insight_of_inclusive(state_df, forecast, forecast_future) ==
  IF forecast # << >> /\ forecast_future # << >>
  THEN LET change == change_of(state_df[Len(state_df)].y, forecast_future[1].yhat)
       IN  [band |-> IF change.num >= 5 * change.den THEN "increase"
                     ELSE IF change.num <= (0 - 5) * change.den THEN "decrease"
                     ELSE "stable",
            change |-> change]
  ELSE [band |-> IF forecast = << >> THEN "no_forecast" ELSE "no_future",
        change |-> [num |-> 0, den |-> 1]]

\* the message of the INSIGHTS section; a change has den > 0
insight_of(state_df, forecast, forecast_future) ==
  IF forecast # << >> /\ forecast_future # << >>
  THEN LET change == change_of(state_df[Len(state_df)].y, forecast_future[1].yhat)
       IN  [band |-> IF change.num > 5 * change.den THEN "increase"
                     ELSE IF change.num < (0 - 5) * change.den THEN "decrease"
                     ELSE "stable",
            change |-> change]
  ELSE [band |-> IF forecast = << >> THEN "no_forecast" ELSE "no_future",
        change |-> [num |-> 0, den |-> 1]]

(***************************************************************************)
(* OPTIONAL: CRIME TYPE FORECAST                                           *)
(***************************************************************************)
\* df[(df["State"] == selected_state) & (df["Crime_Group"] == selected_crime)]
group_df_of(df, state_name, crime) ==
  SelectSeq(df, LAMBDA r : r.State = state_name /\ r.Crime_Group = crime)

\* group_df.groupby("Year")["Total_Crimes"].sum().reset_index() as ds, y
grp_df_of(group_df) ==
  LET u == unique([i \in 1..Len(group_df) |-> group_df[i].Year])
      ys == sort_values(u, [i \in 1..Len(u) |-> <<u[i], 0>>])
  IN  [g \in 1..Len(ys) |->
         [ds |-> to_datetime(ys[g]),
          y |-> SumRows(group_df, {i \in 1..Len(group_df) : group_df[i].Year = ys[g]})]]

\* whether the button's branch fits a model: if len(group_df) > 2
enough_for_crime(group_df) == Len(group_df) > 2

\* the branch taken when the button is pressed.  Prophet.fit raises
\* ValueError on fewer than 2 rows, which ends the run with an error.
crime_forecast_of(df, state_name, crime, years) ==
  LET group_df == group_df_of(df, state_name, crime)
      grp_df == grp_df_of(group_df)
  IN  IF enough_for_crime(group_df)
      THEN IF Len(grp_df) < 2
           THEN [outcome |-> "error", fitted |-> FALSE, dates |-> << >>]
           ELSE [outcome |-> "forecast", fitted |-> TRUE,
                 dates |-> make_future_dataframe(grp_df, years)]
      ELSE [outcome |-> "warning", fitted |-> FALSE, dates |-> << >>]

(***************************************************************************)
(* One run of the script                                                   *)
(***************************************************************************)
\* the page before the first run
NotRun ==
  [status |-> "notrun", button |-> FALSE, df |-> << >>, state_year |-> << >>,
   fitted |-> FALSE,
   state_df |-> << >>, forecast |-> << >>, yoy_table |-> << >>,
   crime_type_totals |-> << >>, forecast_future |-> << >>,
   forecast_future_display |-> << >>,
   insight |-> [band |-> "none", change |-> [num |-> 0, den |-> 1]],
   crime_forecast |-> [outcome |-> "not_run", fitted |-> FALSE, dates |-> << >>]]

\* the page of a run that ends at st.stop(): the warning, and nothing below it
StoppedPage(df, sy) ==
  [NotRun EXCEPT !.status = "stopped", !.df = df, !.state_year = sy]

\* the page of a run that goes past st.stop(), section by section
RenderedPage(df, sy, r, fitted, state_name, years, crime, button) ==
  LET forecast_future == forecast_future_of(r.state_df, r.forecast)
  IN  [status |-> "rendered",
       button |-> button,
       df |-> df,
       state_year |-> sy,
       fitted |-> fitted,
       state_df |-> r.state_df,
       forecast |-> r.forecast,
       yoy_table |-> dropna(yoy_frame(r.state_df)),
       crime_type_totals |-> crime_type_totals_of(df, state_name),
       forecast_future |-> forecast_future,
       forecast_future_display |-> forecast_future_display_of(forecast_future),
       insight |-> insight_of(r.state_df, r.forecast, forecast_future),
       crime_forecast |->
         IF button THEN crime_forecast_of(df, state_name, crime, years)
         ELSE NotRun.crime_forecast]

\* the count of fits of the region model for (state_name, years), one more
count_fit(f, state_name, years) ==
  LET k == <<state_name, years>>
  IN  IF k \in DOMAIN f
      THEN [f EXCEPT ![k] = IF @ < FitCap THEN @ + 1 ELSE @]
      ELSE f @@ (k :> 1)

\* what the call forecast_state(data, state_name, years) may return: the
\* stored result when the cache holds one for these arguments, otherwise
\* the result of the body, whatever the model predicts
call_results(store, data, state_name, years) ==
  IF cache_entries(store, data, state_name, years) # {}
  THEN {e.result : e \in cache_entries(store, data, state_name, years)}
  ELSE {forecast_state(data, state_name, years, yhat) : yhat \in YhatValues}

\* The script from its first line to its last with the widgets at
\* (state_name, years, crime, button).  forecast_state runs its body only
\* when the cache holds no entry for its arguments, and the result is
\* stored; the crime selectbox and the button exist only past st.stop().
RunScript(state_name, years, crime, button) ==
  \E df \in {CleanData(csv)} :
  \E sy \in {aggregate_state_year(df)} :
  \E hit \in {cache_entries(cache, sy, state_name, years) # {}} :
  \E r \in call_results(cache, sy, state_name, years) :
    /\ selected_state' = state_name
    /\ forecast_years' = years
    /\ cache' = IF hit THEN cache
                ELSE cache \cup {[data |-> sy, state_name |-> state_name,
                                  years |-> years, result |-> r]}
    /\ fits' = IF ~hit /\ ~r.none THEN count_fit(fits, state_name, years) ELSE fits
    /\ selected_crime' =
         IF r.none THEN None
         ELSE IF crime = None THEN crime_groups_of(df)[1] ELSE crime
    /\ page' = IF r.none THEN StoppedPage(df, sy)
               ELSE RenderedPage(df, sy, r, ~hit, state_name, years,
                                 IF crime = None THEN crime_groups_of(df)[1] ELSE crime,
                                 button)
    /\ UNCHANGED csv

\* the options of the two selectboxes
state_options == state_list_of(aggregate_state_year(CleanData(csv)))

crime_options == crime_groups_of(CleanData(csv))

Options(list) == IF list = << >> THEN {None} ELSE {list[i] : i \in 1..Len(list)}

Init ==
  /\ csv \in Tables
  /\ selected_state = None
  /\ forecast_years = slider_default
  /\ selected_crime = None
  /\ cache = {}
  /\ fits = << >>
  /\ page = NotRun

(***************************************************************************)
(* Spec: one run of the script on a fresh cache, for every file and every  *)
(* position of the widgets.                                                *)
(***************************************************************************)
Run ==
  /\ page.status = "notrun"
  /\ \E s \in Options(state_options), h \in slider_min..slider_max,
        c \in Options(crime_options), b \in BOOLEAN :
        RunScript(s, h, c, b)

Next == Run

Spec == Init /\ [][Next]_vars

(***************************************************************************)
(* SessionSpec: a session.  The first run has the widgets at their         *)
(* defaults; every change of a widget and every press of the button runs   *)
(* the script again, with the button True in the run its press starts.     *)
(***************************************************************************)
\* the smallest files with a region that can be forecast and one that cannot;
\* every count is a number (Spec covers the counts that are not)
SessionTables ==
  {t \in Tables :
     /\ Len(t) = min_points + 1
     /\ \A i \in 1..Len(t) :
          to_numeric(t[i].Trial_of_Violent_Crimes_by_Courts_Total) # NaN
     /\ \E i, j \in 1..Len(t) :
          /\ t[i].Area_Name # t[j].Area_Name
          /\ Len(select_state_df(aggregate_state_year(CleanData(t)), t[i].Area_Name))
               = min_points}

SessionHorizons ==
  {h \in slider_min..slider_max : h <= HorizonCap \/ h = slider_default}

SessionInit == Init /\ csv \in SessionTables

FirstRun ==
  /\ page.status = "notrun"
  /\ RunScript(IF state_options = << >> THEN None ELSE state_options[1],
               slider_default, None, FALSE)

SelectState(s) ==
  /\ page.status # "notrun"
  /\ s # selected_state
  /\ RunScript(s, forecast_years, selected_crime, FALSE)

MoveSlider(h) ==
  /\ page.status # "notrun"
  /\ h # forecast_years
  /\ RunScript(selected_state, h, selected_crime, FALSE)

SelectCrime(c) ==
  /\ page.status = "rendered"
  /\ c # selected_crime
  /\ RunScript(selected_state, forecast_years, c, FALSE)

PressButton ==
  /\ page.status = "rendered"
  /\ RunScript(selected_state, forecast_years, selected_crime, TRUE)

SessionNext ==
  \/ FirstRun
  \/ \E s \in Options(state_options) : SelectState(s)
  \/ \E h \in SessionHorizons : MoveSlider(h)
  \/ \E c \in Options(crime_options) : SelectCrime(c)
  \/ PressButton

SessionSpec == SessionInit /\ [][SessionNext]_vars

(***************************************************************************)
(* The claims.  What a claim says of the input is computed here from the   *)
(* text of the file, not by the operators of the script.                   *)
(***************************************************************************)
\* the text of a count field is a number: digits, with or without a sign
IsNumberText(raw) ==
  LET body == IF raw # << >> /\ raw[1] = "-" THEN Tail(raw) ELSE raw
  IN  /\ body # << >>
      /\ \A i \in 1..Len(body) :
           body[i] \in {"0", "1", "2", "3", "4", "5", "6", "7", "8", "9"}

IsNegativeText(raw) == IsNumberText(raw) /\ raw[1] = "-" /\ ParseDigits(Tail(raw)) > 0

\* the count of an input row, a missing or non-numeric one counted as 0
InputCount(row) ==
  LET raw == row.Trial_of_Violent_Crimes_by_Courts_Total
  IN  IF ~IsNumberText(raw) THEN 0
      ELSE IF raw[1] = "-" THEN 0 - ParseDigits(Tail(raw)) ELSE ParseDigits(raw)

HasRun == page.status # "notrun"

Rendered == page.status = "rendered"

\* the observations of the selected region in state_year
SelectedObservations ==
  {i \in 1..Len(page.state_year) : page.state_year[i].State = selected_state}

\* the last historical timestamp of the selected region's series
LastHistorical ==
  CHOOSE d \in {page.state_df[i].ds : i \in 1..Len(page.state_df)} :
    \A i \in 1..Len(page.state_df) : page.state_df[i].ds <= d

\* C1: the region-year aggregation yields at most one observation per
\* (region, year), and the sum of its total counts is the sum of the input
\* counts, a missing or non-numeric input count counted as 0.
C1_AggregationKeepsSum ==
  HasRun =>
    /\ \A i, j \in 1..Len(page.state_year) :
         (page.state_year[i].State = page.state_year[j].State
          /\ page.state_year[i].Year = page.state_year[j].Year) => i = j
    /\ SumSeq([i \in 1..Len(page.state_year) |-> page.state_year[i].Total_Crimes])
         = SumSeq([i \in 1..Len(csv) |-> InputCount(csv[i])])

\* a run on a file with two rows of one (region, year), a count that is no
\* number and a second observation
C1_Witness ==
  /\ HasRun
  /\ Len(page.state_year) >= 2
  /\ Len(page.state_year) < Len(csv)
  /\ \E i \in 1..Len(csv) : ~IsNumberText(csv[i].Trial_of_Violent_Crimes_by_Courts_Total)

\* C2: forecast_state returns no forecast and fits no model for a region
\* whose series has 0, 1 or 2 observations; for a series of at least 3 and
\* a horizon of at least 1 the forecast is non-empty, its timestamps are
\* strictly ascending and every historical timestamp is among them.
C2_ForecastOrInsufficient ==
  HasRun =>
    IF Cardinality(SelectedObservations) < 3
    THEN /\ page.status = "stopped"
         /\ ~page.fitted
         /\ page.forecast = << >>
    ELSE /\ page.status = "rendered"
         /\ forecast_years >= 1
         /\ page.forecast # << >>
         /\ \A i \in 1..(Len(page.forecast) - 1) :
              page.forecast[i].ds < page.forecast[i + 1].ds
         /\ Len(page.state_df) = Cardinality(SelectedObservations)
         /\ \A i \in 1..Len(page.state_df) :
              \E j \in 1..Len(page.forecast) : page.forecast[j].ds = page.state_df[i].ds

\* a forecast of a series of exactly three observations
C2_Witness ==
  /\ Rendered
  /\ Cardinality(SelectedObservations) = 3
  /\ page.fitted
  /\ Len(page.forecast) > 3

\* C3: the year-over-year value of an observation is (cur - prev) / prev *
\* 100; no row is shown for the first observation of the series nor for an
\* observation whose predecessor has a count of 0.
C3_YoYOmittedAfterZero ==
  Rendered =>
    \A i \in 1..Len(page.state_df) :
      LET shown == {k \in 1..Len(page.yoy_table) :
                      page.yoy_table[k].Year = page.state_df[i].ds \div 10000}
      IN  IF i = 1 \/ page.state_df[i - 1].y = 0
          THEN shown = {}
          ELSE \E k \in shown :
                 /\ page.yoy_table[k].YoY_Change.kind = "num"
                 /\ page.yoy_table[k].YoY_Change.num * page.state_df[i - 1].y
                      = (page.state_df[i].y - page.state_df[i - 1].y) * 100
                          * page.yoy_table[k].YoY_Change.den

\* the rows of the file for the selected region and crime group, by year
CrimeYears ==
  {csv[i].Year : i \in {j \in 1..Len(csv) : /\ csv[j].Area_Name = selected_state
                                            /\ csv[j].Group_Name = selected_crime}}

\* C4: the forecast for a crime type warns, and fits no model, whenever the
\* region and category have fewer than 3 yearly observations; a model is
\* fitted only when that yearly series has at least 3.
C4_CrimeForecastNeedsThreeYears ==
  (Rendered /\ page.button) =>
    /\ Cardinality(CrimeYears) < 3 =>
         (page.crime_forecast.outcome = "warning" /\ ~page.crime_forecast.fitted)
    /\ page.crime_forecast.fitted => Cardinality(CrimeYears) >= 3

\* C5: every row of the Forecast Summary shows a year after the last
\* historical year Y of the region: Y+1 to Y+H, never Y itself.
C5_SummaryYearsAfterLast ==
  Rendered =>
    \A k \in 1..Len(page.forecast_future_display) :
      page.forecast_future_display[k].Year > LastHistorical \div 10000

\* C6: for a series of at least 3 observations and a horizon H in 1..10 the
\* future-only window holds exactly the rows of the forecast whose timestamp
\* is after the last historical timestamp, and it has H rows.
C6_FutureWindow ==
  Rendered =>
    /\ forecast_years \in 1..10
    /\ \A j \in 1..Len(page.forecast) :
         (page.forecast[j].ds > LastHistorical)
           <=> (\E k \in 1..Len(page.forecast_future) :
                  page.forecast_future[k] = page.forecast[j])
    /\ \A k \in 1..Len(page.forecast_future) :
         \E j \in 1..Len(page.forecast) : page.forecast[j] = page.forecast_future[k]
    /\ Len(page.forecast_future) = forecast_years

\* a window of ten rows for the longest horizon
C6_Witness ==
  /\ Rendered
  /\ forecast_years = 10
  /\ Len(page.forecast_future) = 10
  /\ Len(page.forecast) = Len(page.state_df) + 10

\* C7: in a session the region model is fitted at most once per (region,
\* horizon); a run that leaves the region and the horizon as they were fits
\* no model and shows the result the cache holds for the pair.
C7_FitOncePerPair ==
  /\ [](\A k \in DOMAIN fits : fits[k] <= 1)
  /\ [][(HasRun /\ selected_state' = selected_state /\ forecast_years' = forecast_years)
          => /\ ~page'.fitted
             /\ page'.forecast = page.forecast
             /\ page'.state_df = page.state_df]_vars

\* the run a press of the button starts, in a session that has visited two
\* horizons of the region: it shows a forecast and fits no region model
C7_Witness ==
  /\ Rendered
  /\ page.button
  /\ ~page.fitted
  /\ page.forecast # << >>
  /\ Cardinality({k \in DOMAIN fits : k[1] = selected_state /\ fits[k] = 1}) >= 2

\* C8: no band is shown when the future window is empty; otherwise, with
\* latest the last historical count and next the first future prediction,
\* change% = (next - latest) / latest * 100 if latest > 0 else 0, and the
\* band is Increasing iff change% > 5, Decreasing iff change% < -5, Stable
\* otherwise.
C8_InsightBand ==
  Rendered =>
    IF page.forecast_future = << >>
    THEN page.insight.band \in {"no_forecast", "no_future"}
    ELSE LET latest == page.state_df[Len(page.state_df)].y
             next == page.forecast_future[1].yhat
             c == page.insight.change
             up == latest > 0 /\ (next - latest) * 100 > 5 * latest
             down == latest > 0 /\ (next - latest) * 100 < (0 - 5) * latest
         IN  /\ c.den > 0
             /\ IF latest > 0
                THEN c.num * latest = (next - latest) * 100 * c.den
                ELSE c.num = 0
             /\ page.insight.band \in {"increase", "decrease", "stable"}
             /\ page.insight.band = "increase" <=> up
             /\ page.insight.band = "decrease" <=> down
             /\ page.insight.band = "stable" <=> (~up /\ ~down)

\* a change of exactly 5 per cent, shown as stable
C8_Witness ==
  /\ Rendered
  /\ page.insight.band = "stable"
  /\ page.insight.change.num = 5 * page.insight.change.den

\* the crime groups of the selected region in the last year of the file
LatestYear == CHOOSE y \in {csv[i].Year : i \in 1..Len(csv)} :
                \A i \in 1..Len(csv) : csv[i].Year <= y

LatestRows(g) ==
  {i \in 1..Len(csv) : /\ csv[i].Area_Name = selected_state
                       /\ csv[i].Year = LatestYear
                       /\ csv[i].Group_Name = g}

LatestGroups == {csv[i].Group_Name : i \in 1..Len(csv)}

RECURSIVE SumInput(_)
SumInput(I) ==
  IF I = {} THEN 0
  ELSE LET i == CHOOSE x \in I : TRUE IN InputCount(csv[i]) + SumInput(I \ {i})

\* what both readings of C9 share: the order, the counts and the shares
DistributionShape ==
  LET d == page.crime_type_totals
      total == SumSeq([k \in 1..Len(d) |-> d[k].Total_Crimes])
  IN  /\ \A k \in 1..(Len(d) - 1) : d[k].Total_Crimes >= d[k + 1].Total_Crimes
      /\ \A k \in 1..Len(d) :
           /\ d[k].Total_Crimes = SumInput(LatestRows(d[k].Crime_Group))
           /\ d[k].Total_Crimes # 0
           /\ d[k].Percentage.num * total = d[k].Total_Crimes * 100 * d[k].Percentage.den
           /\ d[k].Percentage.den = total
      /\ \A k, l \in 1..Len(d) : d[k].Crime_Group = d[l].Crime_Group => k = l

SharesSumTo100 ==
  LET d == page.crime_type_totals
  IN  /\ d # << >>
      /\ SumSeq([k \in 1..Len(d) |-> d[k].Percentage.num]) = 100 * d[1].Percentage.den
      /\ d[1].Percentage.den # 0

====
